---- MODULE Spec2Model ----
(***************************************************************************)
(* Hydraulic calculator (Hazen-Williams pressure pipes, Manning gravity    *)
(* pipes with partial flow).  The program computes with JavaScript         *)
(* Numbers; the model computes with a reduced IEEE-style binary floating   *)
(* point: NaN, +/-Infinity and finite values m * 2^e with a 15-bit         *)
(* significand (2^14 <= |m| < 2^15, or m = 0), round to nearest, unbounded *)
(* exponent.  Every arithmetic operator, comparison and library call of    *)
(* the source is translated to the corresponding operator below, in the    *)
(* order the source applies them.                                          *)
(***************************************************************************)
EXTENDS Integers, Sequences, FiniteSets, TLC

\* ------------------------------------------------------------------------
\* JavaScript Number
\* ------------------------------------------------------------------------
\* Significand range: 2^14 <= |m| < 2^15 (products of two stay below 2^31).
MantLo == 2^14
MantHi == 2^15

NaN == [k |-> "nan", m |-> 0, e |-> 0]
PosInf == [k |-> "inf", m |-> 1, e |-> 0]
NegInf == [k |-> "inf", m |-> -1, e |-> 0]
Zero == [k |-> "fin", m |-> 0, e |-> 0]

Abs(i) == IF i < 0 THEN -i ELSE i
Sgn(i) == IF i < 0 THEN -1 ELSE IF i > 0 THEN 1 ELSE 0

RECURSIVE BitLen(_)
BitLen(a) == IF a = 0 THEN 0 ELSE 1 + BitLen(a \div 2)

\* The range of a double: magnitudes of 2^1024 and above overflow to an
\* infinity, and below 2^-1060 only the multiples of 2^-1074 exist.
MaxExp == 1024
MinExp == -1074

\* m * 2^e with 2^14 <= |m| < 2^15, brought into that range
InRange(m, e) ==
  IF e + 15 > MaxExp THEN (IF m < 0 THEN NegInf ELSE PosInf)
  ELSE IF e >= MinExp THEN [k |-> "fin", m |-> m, e |-> e]
  ELSE IF MinExp - e > 15 THEN Zero
  ELSE CHOOSE x \in
         {[k |-> "fin", m |-> Sgn(m) * q * 2^(15 - b), e |-> MinExp - (15 - b)] :
            q \in {(Abs(m) + 2^(MinExp - e - 1)) \div 2^(MinExp - e)},
            b \in {BitLen((Abs(m) + 2^(MinExp - e - 1)) \div 2^(MinExp - e))}} : TRUE

\* The Number nearest to m * 2^e (ties away from zero).  Here and below a
\* set constructor binds an operand or an intermediate result, which is then
\* computed once however often the result depends on it.
Norm(m, e) ==
  IF m = 0 THEN Zero
  ELSE CHOOSE x \in
         {IF b <= 15
          THEN CHOOSE y \in {InRange(mm, ee) : mm \in {m * 2^(15 - b)},
                                               ee \in {e - (15 - b)}} : TRUE
          ELSE CHOOSE y \in
                 {IF q = MantHi THEN InRange(Sgn(m) * MantLo, ee + 1)
                  ELSE InRange(mm, ee) :
                    q \in {(Abs(m) + 2^(b - 16)) \div 2^(b - 15)},
                    mm \in {Sgn(m) * ((Abs(m) + 2^(b - 16)) \div 2^(b - 15))},
                    ee \in {e + (b - 15)}} : TRUE :
            b \in {BitLen(Abs(m))}} : TRUE

isNaN(x) == x.k = "nan"
isInf(x) == x.k = "inf"
\* isFinite(x): neither NaN nor an infinity
isFinite(x) == x.k = "fin"
Sign(x) == Sgn(x.m)
Neg(x) == [x EXCEPT !.m = -x.m]
Inf(s) == IF s < 0 THEN NegInf ELSE PosInf

\* x * y
Mul(x, y) ==
  CHOOSE r \in
    {IF isNaN(a) \/ isNaN(b) THEN NaN
     ELSE IF isInf(a) \/ isInf(b)
          THEN IF Sign(a) = 0 \/ Sign(b) = 0 THEN NaN ELSE Inf(Sign(a) * Sign(b))
     ELSE Norm(a.m * b.m, a.e + b.e) :
       a \in {x}, b \in {y}} : TRUE

\* x / y
Div(x, y) ==
  CHOOSE r \in
    {IF isNaN(a) \/ isNaN(b) THEN NaN
     ELSE IF isInf(a) THEN (IF isInf(b) THEN NaN
                            ELSE Inf(Sign(a) * (IF Sign(b) < 0 THEN -1 ELSE 1)))
     ELSE IF isInf(b) THEN Zero
     ELSE IF Sign(b) = 0 THEN (IF Sign(a) = 0 THEN NaN ELSE Inf(Sign(a)))
     ELSE IF Sign(a) = 0 THEN Zero
     ELSE LET n == Abs(a.m) * 2^16
              d == Abs(b.m)
              q == n \div d
              sticky == IF n % d = 0 THEN 0 ELSE 1
          IN Norm(Sign(a) * Sign(b) * (2 * q + sticky), a.e - b.e - 17) :
       a \in {x}, b \in {y}} : TRUE

\* x + y for finite, non-zero x and y with x.e >= y.e
AddAligned(x, y) ==
  LET d == x.e - y.e
  IN IF d > 15 THEN x ELSE Norm(x.m * 2^d + y.m, y.e)

\* x + y
Add(x, y) ==
  CHOOSE r \in
    {IF isNaN(a) \/ isNaN(b) THEN NaN
     ELSE IF isInf(a) THEN (IF isInf(b) /\ Sign(a) # Sign(b) THEN NaN ELSE a)
     ELSE IF isInf(b) THEN b
     ELSE IF Sign(a) = 0 THEN b
     ELSE IF Sign(b) = 0 THEN a
     ELSE IF a.e >= b.e THEN AddAligned(a, b) ELSE AddAligned(b, a) :
       a \in {x}, b \in {y}} : TRUE

\* x - y
Sub(x, y) == Add(x, Neg(y))

\* x < y, x <= y, x > y, x >= y: false whenever an operand is NaN
Lt(x, y) ==
  \E a \in {x}, b \in {y} : ~isNaN(a) /\ ~isNaN(b) /\ a # b /\ Sign(Sub(a, b)) < 0
Le(x, y) ==
  \E a \in {x}, b \in {y} : ~isNaN(a) /\ ~isNaN(b) /\ (a = b \/ Sign(Sub(a, b)) < 0)
Gt(x, y) == Lt(y, x)
Ge(x, y) == Le(y, x)

\* Number literals: the integer n, and the decimal n / 10^d
Int2Num(n) == Norm(n, 0)
Dec(n, d) == Div(Int2Num(n), Int2Num(10^d))

One == Int2Num(1)
Two == Int2Num(2)

\* Math.max, Math.min (NaN if an operand is NaN)
MathMax(x, y) ==
  CHOOSE r \in {IF isNaN(a) \/ isNaN(b) THEN NaN ELSE IF Lt(a, b) THEN b ELSE a :
                  a \in {x}, b \in {y}} : TRUE
MathMin(x, y) ==
  CHOOSE r \in {IF isNaN(a) \/ isNaN(b) THEN NaN ELSE IF Lt(b, a) THEN b ELSE a :
                  a \in {x}, b \in {y}} : TRUE

\* floor(sqrt(n)) by bisection on lo..hi, lo*lo <= n (mid, bound by the set
\* constructor, is computed once for each step)
RECURSIVE ISqrt(_, _, _)
ISqrt(n, lo, hi) ==
  IF hi - lo <= 1 THEN lo
  ELSE CHOOSE r \in {IF mid * mid <= n THEN ISqrt(n, mid, hi) ELSE ISqrt(n, lo, mid) :
                        mid \in {(lo + hi) \div 2}} : TRUE

\* Math.sqrt
MathSqrt(x) ==
  IF isNaN(x) \/ Sign(x) < 0 THEN NaN
  ELSE IF isInf(x) THEN PosInf
  ELSE IF Sign(x) = 0 THEN Zero
  ELSE LET s == IF x.e % 2 = 0 THEN 14 ELSE 15
           n == x.m * 2^s
           r == ISqrt(n, MantLo, MantHi)
           up == IF r * r + r < n THEN r + 1 ELSE r
       IN Norm(up, (x.e - s) \div 2)

\* floor(n * 2^j / a) for 0 <= n, 0 < a < 2^30, by long division (q, r: the
\* quotient and remainder so far)
RECURSIVE LongDiv(_, _, _, _)
LongDiv(q, r, j, a) ==
  IF j = 0 THEN q
  ELSE IF 2 * r >= a THEN LongDiv(2 * q + 1, 2 * r - a, j - 1, a)
       ELSE LongDiv(2 * q, 2 * r, j - 1, a)

\* the largest r in lo..hi-1 with r^3 <= n * 2^j
RECURSIVE ICbrt(_, _, _, _)
ICbrt(n, j, lo, hi) ==
  IF hi - lo <= 1 THEN lo
  ELSE CHOOSE r \in {IF mid <= LongDiv(n \div (mid * mid), n % (mid * mid), j, mid * mid)
                       THEN ICbrt(n, j, mid, hi) ELSE ICbrt(n, j, lo, mid) :
                        mid \in {(lo + hi) \div 2}} : TRUE

\* Math.pow(x, 2.0/3.0) for x >= 0: the cube root of x*x
PowTwoThirds(x) ==
  IF isNaN(x) \/ Sign(x) < 0 THEN NaN
  ELSE IF isInf(x) THEN PosInf
  ELSE IF Sign(x) = 0 THEN Zero
  ELSE LET n == x.m * x.m
           base == IF n < 2^29 THEN 14 ELSE 13
           j == base + ((2 * x.e - base) % 3)
           r == ICbrt(n, j, MantLo, MantHi)
       IN Norm(r, (2 * x.e - j) \div 3)

\* log2(1 + 2^-i) * 2^24 for i = 1..20
Log2Table ==
  <<9814042, 5401057, 2850868, 1467383, 744810, 375270, 188362, 94364, 47228,
    23626, 11816, 5909, 2954, 1477, 739, 369, 185, 92, 46, 23>>

\* y / 2^28 in [1, 2] is multiplied by the factors 1 + 2^-i that keep it at
\* most 2; acc, the sum of their logarithms, ends at 1 - log2 of the first y
\* (in units of 2^-24)
RECURSIVE Log2Steps(_, _, _)
Log2Steps(y, acc, i) ==
  IF i > Len(Log2Table) THEN acc
  ELSE CHOOSE r \in {IF z <= 2^29 THEN Log2Steps(z, acc + Log2Table[i], i + 1)
                       ELSE Log2Steps(y, acc, i + 1) :
                        z \in {y + y \div 2^i}} : TRUE

\* 2^(g / 2^24) * 2^28 for 0 <= g < 2^24, as the product of the factors
\* 1 + 2^-i whose logarithms add up to g
RECURSIVE Exp2Steps(_, _, _)
Exp2Steps(y, g, i) ==
  IF i > Len(Log2Table) THEN y
  ELSE IF g >= Log2Table[i]
       THEN Exp2Steps(y + y \div 2^i, g - Log2Table[i], i + 1)
       ELSE Exp2Steps(y, g, i + 1)

\* x^(a/1000) for finite x > 0, as 2^((a/1000) * log2 x); within two units in
\* the last place of the model's Numbers
PowPositive(x, a) ==
  LET f == (2^24 - Log2Steps(Abs(x.m) * 2^14, 0, 1) + 32) \div 64
      E == a * (x.e + 14)
      G == (((E % 1000) * 2^18 + a * f) + 500) \div 1000
      y == Exp2Steps(2^28, (G % 2^18) * 64, 1)
  IN Norm((y + 2^13) \div 2^14, (E \div 1000) + (G \div 2^18) - 14)

\* Math.pow(x, a/1000) for an exponent a/1000 > 0 that is no integer
MathPow(x, a) ==
  IF isNaN(x) \/ Sign(x) < 0 THEN NaN
  ELSE IF isInf(x) THEN PosInf
  ELSE IF Sign(x) = 0 THEN Zero
  ELSE CHOOSE r \in {PowPositive(v, a) : v \in {x}} : TRUE

\* ------------------------------------------------------------------------
\* Math.PI, Math.sin, Math.cos, Math.acos
\* ------------------------------------------------------------------------
MathPI == Norm(25736, -13)
TwoPI == Mul(Two, MathPI)
HalfPI == Div(MathPI, Two)

\* 1 - (x2/d1) * (1 - (x2/d2) * (1 - ...)): the alternating power series of
\* sin and cos in nested form, dens = <<d1, d2, ...>>
RECURSIVE Nest(_, _)
Nest(x2, dens) ==
  IF dens = <<>> THEN One
  ELSE Sub(One, Mul(Div(x2, Int2Num(Head(dens))), Nest(x2, Tail(dens))))

\* sin x for 0 <= x <= pi/2
SinSeries(x) == Mul(x, Nest(Mul(x, x), <<6, 20, 42, 72, 110>>))

\* 1 - cos x for 0 <= x <= 2
VersSeries(x) ==
  LET x2 == Mul(x, x)
  IN Mul(Div(x2, Two), Nest(x2, <<12, 30, 56, 90, 132>>))

\* x - sin x for 0 <= x <= 2
SubSinSeries(x) ==
  LET x2 == Mul(x, x)
  IN Mul(Div(Mul(x2, x), Int2Num(6)), Nest(x2, <<20, 42, 72, 110, 156>>))

\* Math.sin(x)
RECURSIVE MathSin(_)
MathSin(x) ==
  IF ~isFinite(x) THEN NaN
  ELSE IF Sign(x) < 0 THEN Neg(MathSin(Neg(x)))
  ELSE IF Le(x, HalfPI) THEN SinSeries(x)
  ELSE IF Le(x, MathPI) THEN SinSeries(Sub(MathPI, x))
  ELSE IF Le(x, Add(MathPI, HalfPI)) THEN Neg(SinSeries(Sub(x, MathPI)))
  ELSE IF Le(x, TwoPI) THEN Neg(SinSeries(Sub(TwoPI, x)))
  ELSE MathSin(Sub(x, TwoPI))

\* 1.0 - Math.cos(x).  Math.cos is accurate to the last place of a double,
\* so the difference keeps the model's precision for every |x| >= 5e-7; the
\* series gives it to that precision directly.
RECURSIVE OneMinusCos(_)
OneMinusCos(x) ==
  IF ~isFinite(x) THEN NaN
  ELSE IF Sign(x) < 0 THEN OneMinusCos(Neg(x))
  ELSE IF Le(x, Two) THEN VersSeries(x)
  ELSE IF Le(x, MathPI) THEN Sub(Two, VersSeries(Sub(MathPI, x)))
  ELSE IF Le(x, TwoPI) THEN OneMinusCos(Sub(TwoPI, x))
  ELSE OneMinusCos(Sub(x, TwoPI))

\* theta - Math.sin(theta).  Math.sin is accurate to the last place of a
\* double, so the difference keeps the model's precision for every
\* |theta| >= 1e-6; the series gives it to that precision directly.
SubSin(theta) ==
  IF ~isFinite(theta) THEN NaN
  ELSE IF Sign(theta) < 0 THEN Neg(SubSinSeries(Neg(theta)))
  ELSE IF Le(theta, Two) THEN SubSinSeries(theta)
  ELSE Sub(theta, MathSin(theta))

\* Math.acos(c) for -1 <= c <= 1: the angle h in [0, pi] with 1 - cos h = 1 - c,
\* located by bisection (mid is computed once for each step)
RECURSIVE AcosBisect(_, _, _, _)
AcosBisect(v, l, h, k) ==
  IF k = 0 THEN Div(Add(l, h), Two)
  ELSE CHOOSE r \in {IF Lt(OneMinusCos(mid), v) THEN AcosBisect(v, mid, h, k - 1)
                       ELSE AcosBisect(v, l, mid, k - 1) :
                        mid \in {Div(Add(l, h), Two)}} : TRUE

MathAcos(c) ==
  IF isNaN(c) \/ Gt(c, One) \/ Lt(c, Neg(One)) THEN NaN
  ELSE IF c = One THEN Zero
  ELSE IF c = Neg(One) THEN MathPI
  ELSE AcosBisect(Sub(One, c), Zero, MathPI, 24)

\* ------------------------------------------------------------------------
\* Core hydraulics
\* ------------------------------------------------------------------------
clamp(v, a, b) == MathMax(a, MathMin(b, v))

areaFullFromD(Dm) == Div(Mul(Mul(MathPI, Dm), Dm), Int2Num(4))

velocityFull(Qm3s, Dm) ==
  LET A == areaFullFromD(Dm)
  IN IF ~isFinite(A) \/ Le(A, Zero) THEN NaN ELSE Div(Qm3s, A)

\* 10.67 * L * Q^1.852 / (C^1.852 * D^4.871), each factor computed once
HazenQuotient(Lm, Qm3s, C, Dm) ==
  CHOOSE hf \in {Div(Mul(kL, qp), Mul(cp, dp)) :
                   kL \in {Mul(Dec(1067, 2), Lm)}, qp \in {MathPow(Qm3s, 1852)},
                   cp \in {MathPow(C, 1852)}, dp \in {MathPow(Dm, 4871)}} : TRUE

\* hazenWilliamsHf with the positivity test written < 0
hazenWilliamsHfNonNegative(Lm, Qm3s, C, Dm) ==
  IF ~isFinite(Lm) \/ ~isFinite(Qm3s) \/ ~isFinite(C) \/ ~isFinite(Dm) THEN NaN
  ELSE IF Lt(Lm, Zero) \/ Lt(Qm3s, Zero) \/ Lt(C, Zero) \/ Lt(Dm, Zero) THEN NaN
  ELSE HazenQuotient(Lm, Qm3s, C, Dm)

\* C is a Number at every call, so Number(C) is C
hazenWilliamsHf(Lm, Qm3s, C, Dm) ==
  IF ~isFinite(Lm) \/ ~isFinite(Qm3s) \/ ~isFinite(C) \/ ~isFinite(Dm) THEN NaN
  ELSE IF Le(Lm, Zero) \/ Le(Qm3s, Zero) \/ Le(C, Zero) \/ Le(Dm, Zero) THEN NaN
  ELSE HazenQuotient(Lm, Qm3s, C, Dm)

\* (1/n) * A * R^(2/3) * sqrt(S), each factor computed once
ManningProduct(n, A, R, S) ==
  CHOOSE q \in {Mul(Mul(nA, r23), rootS) :
                  nA \in {Mul(Div(One, n), A)}, r23 \in {PowTwoThirds(R)},
                  rootS \in {MathSqrt(S)}} : TRUE

manningQ_full(Dm, n, S) ==
  CHOOSE q \in
    {IF ~isFinite(A) \/ ~isFinite(R) \/ Le(A, Zero) \/ Le(R, Zero)
        \/ Le(n, Zero) \/ Le(S, Zero)
     THEN NaN
     ELSE ManningProduct(n, A, R, S) :
       A \in {areaFullFromD(Dm)}, R \in {Div(Dm, Int2Num(4))}} : TRUE

\* the segment area with the sign of the sine term reversed
areaPartialPlus(Dm, theta) ==
  Mul(Div(Mul(Dm, Dm), Int2Num(8)), Add(theta, MathSin(theta)))

areaPartial(Dm, theta) == Mul(Div(Mul(Dm, Dm), Int2Num(8)), SubSin(theta))

manningQ_partial(Dm, n, S, theta) ==
  IF Le(Dm, Zero) \/ Le(n, Zero) \/ Le(S, Zero) THEN NaN
  ELSE CHOOSE q \in
         {IF ~isFinite(A) \/ ~isFinite(P) \/ Le(A, Zero) \/ Le(P, Zero) THEN NaN
          ELSE CHOOSE r \in {ManningProduct(n, A, R, S) : R \in {Div(A, P)}} : TRUE :
            A \in {areaPartial(Dm, theta)}, P \in {Mul(Div(Dm, Two), theta)}} : TRUE

depthRatioFromTheta(theta) == Div(OneMinusCos(Div(theta, Two)), Two)

thetaFromDepthRatio(yd) ==
  IF ~isFinite(yd) \/ Le(yd, Zero) THEN NaN
  ELSE IF Ge(yd, One) THEN TwoPI
  ELSE LET c == Sub(One, Mul(Two, yd))
           half == MathAcos(clamp(c, Neg(One), One))
       IN Mul(Two, half)

\* ------------------------------------------------------------------------
\* State: one call of a function of the program.  pc is the place in the
\* function's code, args its arguments, loc its local variables, ret the
\* value it returned.
\* ------------------------------------------------------------------------
VARIABLES pc, args, loc, ret

vars == <<pc, args, loc, ret>>

\* capped is a history variable of solveD_manning_atDepth: the bracket-growth
\* loop ended on its cap (50 attempts, or hi > 50) with a bracket whose upper
\* end does not reach the target discharge.
NoLoc == [lo |-> NaN, hi |-> NaN, iter |-> 0, i |-> 0, qfull |-> NaN, theta |-> NaN,
          capped |-> FALSE]
NoRet == [theta |-> NaN, yd |-> NaN, A |-> NaN, qfull |-> NaN]

\* ------------------------------------------------------------------------
\* Inputs
\* ------------------------------------------------------------------------
\* The wetted angles k * 2*pi / NTheta, 0 < k < NTheta, the solver's lower
\* end 1e-6, and angles below it
NTheta == 12
ThetaGrid ==
  {Div(Mul(Int2Num(k), TwoPI), Int2Num(NTheta)) : k \in 1..(NTheta - 1)}
    \cup {Dec(1, 6), Dec(1, 3), Dec(1, 7)}

DiamInputs == {Dec(3, 1), Int2Num(2), Zero, Dec(-3, 1), NaN}
NInputs == {Dec(13, 3), Zero}
SInputs == {Dec(1, 2), Dec(-1, 2)}

\* Target discharges: the discharge at a wetted angle of the grid, and values
\* outside a pipe's range
QDirect == {NaN, Zero, Dec(-1, 1), PosInf, Int2Num(1000)}

\* Diameters of the design domain [0.01 m, 50 m], and depth ratios
DesignDiams ==
  {Dec(1, 2), Dec(3, 2), Dec(5, 2), Dec(3, 1), One, Int2Num(5), Int2Num(20),
   Int2Num(50)}
DepthRatios == {Dec(5, 1), Dec(8, 1), One}
BadDepthRatios == {Zero, Dec(15, 1), NaN}

\* ------------------------------------------------------------------------
\* solveThetaForQ(Dm, Qtarget, n, S)
\* ------------------------------------------------------------------------
ThetaLo == Dec(1, 6)
ThetaIterations == 120

Failure(qf) == [theta |-> NaN, yd |-> NaN, A |-> NaN, qfull |-> qf]

InitTheta ==
  /\ pc = "solveThetaForQ"
  /\ \E D \in DiamInputs, n \in NInputs, S \in SInputs :
       \/ \E q \in QDirect \cup {manningQ_full(D, n, S)} :
            args = [Dm |-> D, Qtarget |-> q, n |-> n, S |-> S, theta0 |-> NaN]
       \/ \E t \in ThetaGrid :
            args = [Dm |-> D, Qtarget |-> manningQ_partial(D, n, S, t),
                    n |-> n, S |-> S, theta0 |-> t]
  /\ loc = NoLoc
  /\ ret = NoRet

\* ThetaCall with the capacity test written Qtarget > qfull
ThetaCallStrictClamp ==
  /\ pc = "solveThetaForQ"
  /\ \E qfull \in {manningQ_full(args.Dm, args.n, args.S)} :
        IF ~isFinite(qfull) \/ Le(qfull, Zero)
        THEN /\ ret' = Failure(NaN)
             /\ pc' = "done"
             /\ loc' = loc
        ELSE IF Gt(args.Qtarget, qfull)
        THEN /\ ret' = [theta |-> TwoPI, yd |-> One,
                        A |-> areaPartial(args.Dm, TwoPI), qfull |-> qfull]
             /\ pc' = "done"
             /\ loc' = [loc EXCEPT !.qfull = qfull]
        ELSE IF Le(args.Qtarget, Zero)
        THEN /\ ret' = Failure(qfull)
             /\ pc' = "done"
             /\ loc' = [loc EXCEPT !.qfull = qfull]
        ELSE /\ loc' = [loc EXCEPT !.qfull = qfull, !.lo = ThetaLo, !.hi = TwoPI,
                                   !.iter = 0]
             /\ pc' = "thetaLoop"
             /\ ret' = ret
  /\ UNCHANGED args

\* ThetaCall without the test Qtarget <= 0
ThetaCallNoSignTest ==
  /\ pc = "solveThetaForQ"
  /\ \E qfull \in {manningQ_full(args.Dm, args.n, args.S)} :
        IF ~isFinite(qfull) \/ Le(qfull, Zero)
        THEN /\ ret' = Failure(NaN)
             /\ pc' = "done"
             /\ loc' = loc
        ELSE IF Ge(args.Qtarget, qfull)
        THEN /\ ret' = [theta |-> TwoPI, yd |-> One,
                        A |-> areaPartial(args.Dm, TwoPI), qfull |-> qfull]
             /\ pc' = "done"
             /\ loc' = [loc EXCEPT !.qfull = qfull]
        ELSE /\ loc' = [loc EXCEPT !.qfull = qfull, !.lo = ThetaLo, !.hi = TwoPI,
                                   !.iter = 0]
             /\ pc' = "thetaLoop"
             /\ ret' = ret
  /\ UNCHANGED args

\* entry to the first loop test
ThetaCall ==
  /\ pc = "solveThetaForQ"
  /\ \E qfull \in {manningQ_full(args.Dm, args.n, args.S)} :
        IF ~isFinite(qfull) \/ Le(qfull, Zero)
        THEN /\ ret' = Failure(NaN)
             /\ pc' = "done"
             /\ loc' = loc
        ELSE IF Ge(args.Qtarget, qfull)
        THEN /\ ret' = [theta |-> TwoPI, yd |-> One,
                        A |-> areaPartial(args.Dm, TwoPI), qfull |-> qfull]
             /\ pc' = "done"
             /\ loc' = [loc EXCEPT !.qfull = qfull]
        ELSE IF Le(args.Qtarget, Zero)
        THEN /\ ret' = Failure(qfull)
             /\ pc' = "done"
             /\ loc' = [loc EXCEPT !.qfull = qfull]
        ELSE /\ loc' = [loc EXCEPT !.qfull = qfull, !.lo = ThetaLo, !.hi = TwoPI,
                                   !.iter = 0]
             /\ pc' = "thetaLoop"
             /\ ret' = ret
  /\ UNCHANGED args

\* ThetaIter with the halves exchanged
ThetaIterSwapped ==
  /\ pc = "thetaLoop"
  /\ loc.iter < ThetaIterations
  /\ \E mid \in {Div(Add(loc.lo, loc.hi), Two)} :
     \E qMid \in {manningQ_partial(args.Dm, args.n, args.S, mid)} :
        IF ~isFinite(qMid)
        THEN /\ ret' = Failure(NaN)
             /\ pc' = "done"
             /\ loc' = loc
        ELSE /\ loc' = IF Lt(qMid, args.Qtarget)
                       THEN [loc EXCEPT !.hi = mid, !.iter = @ + 1]
                       ELSE [loc EXCEPT !.lo = mid, !.iter = @ + 1]
             /\ pc' = "thetaLoop"
             /\ ret' = ret
  /\ UNCHANGED args

\* one iteration of the bisection
ThetaIter ==
  /\ pc = "thetaLoop"
  /\ loc.iter < ThetaIterations
  /\ \E mid \in {Div(Add(loc.lo, loc.hi), Two)} :
     \E qMid \in {manningQ_partial(args.Dm, args.n, args.S, mid)} :
        IF ~isFinite(qMid)
        THEN /\ ret' = Failure(NaN)
             /\ pc' = "done"
             /\ loc' = loc
        ELSE /\ loc' = IF Lt(qMid, args.Qtarget)
                       THEN [loc EXCEPT !.lo = mid, !.iter = @ + 1]
                       ELSE [loc EXCEPT !.hi = mid, !.iter = @ + 1]
             /\ pc' = "thetaLoop"
             /\ ret' = ret
  /\ UNCHANGED args

\* after the loop
ThetaReturn ==
  /\ pc = "thetaLoop"
  /\ ~(loc.iter < ThetaIterations)
  /\ \E theta \in {Div(Add(loc.lo, loc.hi), Two)} :
        ret' = [theta |-> theta, yd |-> depthRatioFromTheta(theta),
                A |-> areaPartial(args.Dm, theta), qfull |-> loc.qfull]
  /\ pc' = "done"
  /\ UNCHANGED <<args, loc>>

NextTheta == ThetaCall \/ ThetaIter \/ ThetaReturn

SpecTheta == InitTheta /\ [][NextTheta]_vars

\* ------------------------------------------------------------------------
\* solveD_manning_atDepth(Qtarget, n, S, yd)
\* ------------------------------------------------------------------------
DepthLo == Dec(5, 2)
DepthHi == Int2Num(5)
GrowFactor == Dec(135, 2)
GrowAttempts == 50
GrowLimit == Int2Num(50)
DepthIterations == 110

InitDepth ==
  /\ pc = "solveD_manning_atDepth"
  /\ \/ \E D \in DesignDiams, yd \in DepthRatios :
          \E theta \in {thetaFromDepthRatio(yd)} :
            args = [Qtarget |-> manningQ_partial(D, Dec(13, 3), Dec(1, 2), theta),
                    n |-> Dec(13, 3), S |-> Dec(1, 2), yd |-> yd, D0 |-> D]
     \/ \E q \in {NaN, Zero, Int2Num(10), Int2Num(1000000)},
           n \in NInputs, S \in SInputs,
           yd \in DepthRatios \cup BadDepthRatios :
          args = [Qtarget |-> q, n |-> n, S |-> S, yd |-> yd, D0 |-> NaN]
  /\ loc = NoLoc
  /\ ret = NaN

\* entry to the first test of the growth loop
DepthCall ==
  /\ pc = "solveD_manning_atDepth"
  /\ IF ~isFinite(args.Qtarget) \/ Le(args.Qtarget, Zero)
        \/ ~isFinite(args.n) \/ Le(args.n, Zero)
        \/ ~isFinite(args.S) \/ Le(args.S, Zero)
     THEN ret' = NaN /\ pc' = "done" /\ loc' = loc
     ELSE IF ~isFinite(args.yd) \/ Le(args.yd, Zero) \/ Gt(args.yd, One)
     THEN ret' = NaN /\ pc' = "done" /\ loc' = loc
     ELSE \E theta \in {thetaFromDepthRatio(args.yd)} :
             IF ~isFinite(theta) \/ Le(theta, Zero)
             THEN ret' = NaN /\ pc' = "done" /\ loc' = loc
             ELSE /\ loc' = [loc EXCEPT !.theta = theta, !.lo = DepthLo,
                                        !.hi = DepthHi, !.i = 0]
                  /\ pc' = "growLoop"
                  /\ ret' = ret
  /\ UNCHANGED args

\* the discharge at diameter h reaches the target
Reaches(h) ==
  \E q \in {manningQ_partial(h, args.n, args.S, loc.theta)} :
     isFinite(q) /\ Ge(q, args.Qtarget)

\* the growth loop's test and one iteration of it
DepthGrow ==
  /\ pc = "growLoop"
  /\ IF ~(loc.i < GrowAttempts)
     THEN /\ loc' = [loc EXCEPT !.capped = ~Reaches(loc.hi), !.iter = 0]
          /\ pc' = "bisectLoop"
     ELSE \E qHi \in {manningQ_partial(loc.hi, args.n, args.S, loc.theta)},
             grown \in {Mul(loc.hi, GrowFactor)} :
             IF isFinite(qHi) /\ Ge(qHi, args.Qtarget)
             THEN /\ loc' = [loc EXCEPT !.iter = 0]
                  /\ pc' = "bisectLoop"
             ELSE IF Gt(grown, GrowLimit)
             THEN /\ loc' = [loc EXCEPT !.hi = grown, !.capped = ~Reaches(grown),
                                        !.iter = 0]
                  /\ pc' = "bisectLoop"
             ELSE /\ loc' = [loc EXCEPT !.hi = grown, !.i = @ + 1]
                  /\ pc' = "growLoop"
  /\ UNCHANGED <<args, ret>>

\* DepthIter without the count of iterations
DepthIterUncounted ==
  /\ pc = "bisectLoop"
  /\ loc.iter < DepthIterations
  /\ \E mid \in {Div(Add(loc.lo, loc.hi), Two)} :
     \E qMid \in {manningQ_partial(mid, args.n, args.S, loc.theta)} :
        IF ~isFinite(qMid)
        THEN ret' = NaN /\ pc' = "done" /\ loc' = loc
        ELSE /\ loc' = IF Lt(qMid, args.Qtarget)
                       THEN [loc EXCEPT !.lo = mid]
                       ELSE [loc EXCEPT !.hi = mid]
             /\ pc' = "bisectLoop"
             /\ ret' = ret
  /\ UNCHANGED args

\* one iteration of the bisection
DepthIter ==
  /\ pc = "bisectLoop"
  /\ loc.iter < DepthIterations
  /\ \E mid \in {Div(Add(loc.lo, loc.hi), Two)} :
     \E qMid \in {manningQ_partial(mid, args.n, args.S, loc.theta)} :
        IF ~isFinite(qMid)
        THEN ret' = NaN /\ pc' = "done" /\ loc' = loc
        ELSE /\ loc' = IF Lt(qMid, args.Qtarget)
                       THEN [loc EXCEPT !.lo = mid, !.iter = @ + 1]
                       ELSE [loc EXCEPT !.hi = mid, !.iter = @ + 1]
             /\ pc' = "bisectLoop"
             /\ ret' = ret
  /\ UNCHANGED args

\* after the loop
DepthReturn ==
  /\ pc = "bisectLoop"
  /\ ~(loc.iter < DepthIterations)
  /\ ret' = Div(Add(loc.lo, loc.hi), Two)
  /\ pc' = "done"
  /\ UNCHANGED <<args, loc>>

NextDepth == DepthCall \/ DepthGrow \/ DepthIter \/ DepthReturn

SpecDepth == InitDepth /\ [][NextDepth]_vars

\* ------------------------------------------------------------------------
\* Properties of solveThetaForQ
\* ------------------------------------------------------------------------
AbsNum(x) == IF Sign(x) < 0 THEN Neg(x) ELSE x
Positive(x) == isFinite(x) /\ Gt(x, Zero)
\* |x - y| <= tol
Within(x, y, tol) == isFinite(x) /\ isFinite(y) /\ Le(AbsNum(Sub(x, y)), tol)

\* x is y within tol, widened by the rounding of the model's Numbers (two
\* units in the last place of y)
Approx(x, y, tol) == Within(x, y, Add(tol, Mul(AbsNum(y), Norm(1, -13))))

ArgsQfull == manningQ_full(args.Dm, args.n, args.S)
\* the call computes the discharge of a wetted angle theta0 in (0, 2*pi) of a
\* valid pipe
RoundTripCall ==
  /\ isFinite(args.theta0)
  /\ Gt(args.theta0, Zero) /\ Lt(args.theta0, TwoPI)
  /\ Positive(args.Dm) /\ Positive(args.n) /\ Positive(args.S)

\* C3 as stated: for every D, n, S > 0 and theta in (0, 2*pi), with
\* Q = manningQ_partial(D,n,S,theta), solveThetaForQ(D,Q,n,S).theta is
\* within 1e-4 of theta.
C3_RoundTripAnyTheta ==
  (pc = "done" /\ RoundTripCall) => Approx(ret.theta, args.theta0, Dec(1, 4))

\* C3 amended: the round trip holds for theta in (0, 4.5]: there the
\* discharge is below the full-flow discharge, so the capacity clamp does not
\* apply.
C3_RoundTripBelowCapacity ==
  (pc = "done" /\ RoundTripCall /\ Le(args.theta0, Dec(45, 1)))
    => Approx(ret.theta, args.theta0, Dec(1, 4))

\* a round trip through the bisection from an angle in (4, 4.5]
C3_Witness ==
  /\ pc = "done" /\ RoundTripCall
  /\ Gt(args.theta0, Int2Num(4)) /\ Le(args.theta0, Dec(45, 1))
  /\ loc.iter = ThetaIterations
  /\ Approx(ret.theta, args.theta0, Dec(1, 4))

\* C5: for valid D, n, S, whenever Qtarget >= manningQ_full(D,n,S) the
\* solver returns theta = 2*pi, yd = 1.0 and the full-flow discharge, and
\* no bisection iteration is executed.
C5_CapacityClamp ==
  (Positive(ArgsQfull) /\ Ge(args.Qtarget, ArgsQfull))
    => /\ pc # "thetaLoop"
       /\ loc.iter = 0
       /\ pc = "done" => /\ ret.theta = TwoPI
                         /\ ret.yd = One
                         /\ ret.qfull = ArgsQfull

\* the clamp applied to a target equal to the full-flow discharge
C5_Witness ==
  /\ pc = "done" /\ Positive(ArgsQfull)
  /\ args.Qtarget = ArgsQfull
  /\ ret.theta = TwoPI /\ ret.yd = One

\* C6 as stated: for valid D, n, S, a NaN target discharge makes the solver
\* return the failure sentinel (theta and yd NaN).
C6_NaNTargetFails ==
  (pc = "done" /\ Positive(ArgsQfull) /\ isNaN(args.Qtarget))
    => isNaN(ret.theta) /\ isNaN(ret.yd)

\* C7: the solver fails before any bisection when the full-flow discharge is
\* not finite or <= 0 (all four fields NaN), and when Qtarget <= 0 (theta, yd
\* and A NaN, qfull kept); a Qtarget <= 0 is never reported as a full pipe.
C7_FailsBeforeBisection ==
  (pc # "solveThetaForQ")
    => /\ ~Positive(ArgsQfull)
            => pc = "done" /\ loc.iter = 0 /\ ret = Failure(NaN)
       /\ (Positive(ArgsQfull) /\ Le(args.Qtarget, Zero))
            => /\ pc = "done" /\ loc.iter = 0
               /\ isNaN(ret.theta) /\ isNaN(ret.yd) /\ isNaN(ret.A)
               /\ ret.qfull = ArgsQfull

\* a negative target on a valid pipe, failed with qfull reported
C7_Witness ==
  /\ pc = "done" /\ Positive(ArgsQfull)
  /\ Lt(args.Qtarget, Zero)
  /\ isNaN(ret.theta) /\ ret.qfull = ArgsQfull


\* ------------------------------------------------------------------------
\* Properties of solveD_manning_atDepth
\* ------------------------------------------------------------------------
\* C1 as stated: when the growth loop ends on its cap (50 attempts or
\* hi > 50 m) without manningQ_partial(hi,n,S,theta) >= Qtarget, the solver
\* returns NaN and not a finite diameter.
C1_CappedBracketFails ==
  (pc = "done" /\ loc.capped) => isNaN(ret)

\* the call computes the discharge of a diameter D0 of the design domain at
\* a depth ratio in (0, 1]
RoundTripDepthCall ==
  /\ isFinite(args.D0)
  /\ Ge(args.D0, Dec(1, 2)) /\ Le(args.D0, Int2Num(50))
  /\ Gt(args.yd, Zero) /\ Le(args.yd, One)
  /\ Positive(args.n) /\ Positive(args.S)

\* C2 as stated: for yd in (0,1], n, S > 0 and D in [0.01 m, 50 m], with
\* Q = manningQ_partial(D,n,S,thetaFromDepthRatio(yd)),
\* solveD_manning_atDepth(Q,n,S,yd) is D within 1e-4 of D.
C2_RoundTripDiameter ==
  (pc = "done" /\ RoundTripDepthCall)
    => Approx(ret, args.D0, Mul(args.D0, Dec(1, 4)))


\* ------------------------------------------------------------------------
\* manningQ_partial evaluated at two wetted angles of one pipe
\* ------------------------------------------------------------------------
\* angles of (0, 2*pi): the grid and two angles past the discharge maximum
ThetaProbe == ThetaGrid \cup {Dec(53, 1), Int2Num(6)}

InitQ ==
  /\ pc = "manningQ_partial"
  /\ \E Dm \in {Dec(3, 1), Int2Num(2)}, t1 \in ThetaProbe, t2 \in ThetaProbe :
       /\ Lt(t1, t2)
       /\ args = [Dm |-> Dm, n |-> Dec(13, 3), S |-> Dec(1, 2),
                  theta1 |-> t1, theta2 |-> t2]
  /\ loc = NoLoc
  /\ ret = [q1 |-> NaN, q2 |-> NaN]

EvalPartial ==
  /\ pc = "manningQ_partial"
  /\ ret' = [q1 |-> manningQ_partial(args.Dm, args.n, args.S, args.theta1),
             q2 |-> manningQ_partial(args.Dm, args.n, args.S, args.theta2)]
  /\ pc' = "done"
  /\ UNCHANGED <<args, loc>>

NextQ == EvalPartial

SpecQ == InitQ /\ [][NextQ]_vars

Raw(kind, n, d) == [kind |-> kind, n |-> n, d |-> d]

\* 10^k for k >= 0
RECURSIVE TenTo(_)
TenTo(k) ==
  IF k = 0 THEN One
  ELSE IF k % 2 = 1 THEN Mul(Int2Num(10), TenTo(k - 1))
  ELSE CHOOSE r \in {Mul(h, h) : h \in {TenTo(k \div 2)}} : TRUE

RawInputs ==
  {Raw("empty", 0, 0), Raw("word", 0, 0), Raw("infinity", 0, 0),
   Raw("dec", 1500, 0), Raw("dec", -25, 1), Raw("dec", 3, 1)}

\* Number(text): "" is 0, a non-numeric word is NaN
Number(raw) ==
  CASE raw.kind = "empty" -> Zero
    [] raw.kind = "word" -> NaN
    [] raw.kind = "infinity" -> PosInf
    [] raw.kind = "exp" -> Mul(Int2Num(raw.n), TenTo(raw.d))
    [] OTHER -> Dec(raw.n, raw.d)

QUnits == {"Lps", "m3ps", "Lpm", "m3ph", "gpm", "cfs"}
VUnits == {"mps", "ftps"}
LUnits == {"mm", "in", "ft", "km", "m"}
SUnits == {"percent", "permil", "mperm"}
UnitTags == QUnits \cup VUnits \cup LUnits \cup SUnits \cup {"furlong"}

\* 0.003785411784 and 0.028316846592 rounded to a Number of the model
GallonM3 == Norm(31754, -23)
CubicFootM3 == Norm(29692, -20)

toM3s(qValue, unit) ==
  CHOOSE r \in
    {IF ~isFinite(q) THEN NaN
     ELSE CASE unit = "Lps" -> Div(q, Int2Num(1000))
            [] unit = "m3ps" -> q
            [] unit = "Lpm" -> Div(Div(q, Int2Num(1000)), Int2Num(60))
            [] unit = "m3ph" -> Div(q, Int2Num(3600))
            [] unit = "gpm" -> Div(Mul(q, GallonM3), Int2Num(60))
            [] unit = "cfs" -> Mul(q, CubicFootM3)
            [] OTHER -> NaN :
       q \in {Number(qValue)}} : TRUE

velToMps(vValue, unit) ==
  CHOOSE r \in
    {IF ~isFinite(x) THEN NaN
     ELSE IF unit = "ftps" THEN Mul(x, Dec(3048, 4)) ELSE x :
       x \in {Number(vValue)}} : TRUE

diameterToM(dValue, unit) ==
  CHOOSE r \in
    {IF ~isFinite(x) THEN NaN
     ELSE IF unit = "mm" THEN Div(x, Int2Num(1000))
     ELSE IF unit = "in" THEN Mul(x, Dec(254, 4))
     ELSE x :
       x \in {Number(dValue)}} : TRUE

lenToM(LValue, unit) ==
  CHOOSE r \in
    {IF ~isFinite(x) THEN NaN
     ELSE IF unit = "km" THEN Mul(x, Int2Num(1000))
     ELSE IF unit = "ft" THEN Mul(x, Dec(3048, 4))
     ELSE x :
       x \in {Number(LValue)}} : TRUE

elevToM(zValue, unit) ==
  CHOOSE r \in
    {IF ~isFinite(x) THEN NaN
     ELSE IF unit = "ft" THEN Mul(x, Dec(3048, 4)) ELSE x :
       x \in {Number(zValue)}} : TRUE

slopeToMmPerM(sValue, unit) ==
  CHOOSE r \in
    {IF ~isFinite(s) THEN NaN
     ELSE IF unit = "percent" THEN Div(s, Int2Num(100))
     ELSE IF unit = "permil" THEN Div(s, Int2Num(1000))
     ELSE s :
       s \in {Number(sValue)}} : TRUE

UnitFns ==
  {"toM3s", "velToMps", "diameterToM", "lenToM", "elevToM", "slopeToMmPerM"}

InitUnits ==
  /\ pc \in UnitFns
  /\ \E v \in RawInputs, u \in UnitTags : args = [fn |-> pc, value |-> v, unit |-> u]
  /\ loc = NoLoc
  /\ ret = NaN

Convert(fn, result) ==
  /\ pc = fn
  /\ ret' = result
  /\ pc' = "done"
  /\ UNCHANGED <<args, loc>>

CallToM3s == Convert("toM3s", toM3s(args.value, args.unit))
CallVelToMps == Convert("velToMps", velToMps(args.value, args.unit))
CallDiameterToM == Convert("diameterToM", diameterToM(args.value, args.unit))
CallLenToM == Convert("lenToM", lenToM(args.value, args.unit))
CallElevToM == Convert("elevToM", elevToM(args.value, args.unit))
CallSlopeToMmPerM == Convert("slopeToMmPerM", slopeToMmPerM(args.value, args.unit))

NextUnits ==
  \/ CallToM3s
  \/ CallVelToMps
  \/ CallDiameterToM
  \/ CallLenToM
  \/ CallElevToM
  \/ CallSlopeToMmPerM

SpecUnits == InitUnits /\ [][NextUnits]_vars

\* the unit tags each conversion's selector offers
Recognized(fn) ==
  CASE fn = "toM3s" -> QUnits
    [] fn = "velToMps" -> VUnits
    [] fn = "diameterToM" -> LUnits
    [] fn = "lenToM" -> LUnits
    [] fn = "elevToM" -> {"m", "ft"}
    [] OTHER -> SUnits

\* C8 as stated: every unit conversion returns NaN when the value does not
\* parse to a finite number or the unit tag is not a recognized one.
C8_SentinelOnBadInput ==
  (pc = "done" /\ (~isFinite(Number(args.value))
                     \/ args.unit \notin Recognized(args.fn)))
    => isNaN(ret)

\* the length in metres of x in a unit of LUnits, by the stated factors
LengthInMetres(x, unit) ==
  CASE unit = "mm" -> Div(x, Int2Num(1000))
    [] unit = "in" -> Mul(x, Dec(254, 4))
    [] unit = "ft" -> Mul(x, Dec(3048, 4))
    [] unit = "km" -> Mul(x, Int2Num(1000))
    [] OTHER -> x

\* C9 as stated: diameterToM and lenToM both convert mm, in, ft, km and m
\* to metres, by /1000, *0.0254, *0.3048, *1000 and *1.
C9_LengthFactors ==
  (pc = "done" /\ args.fn \in {"diameterToM", "lenToM"}
     /\ args.unit \in LUnits /\ isFinite(Number(args.value)))
    => ret = LengthInMetres(Number(args.value), args.unit)


\* ------------------------------------------------------------------------
\* velocityFull applied to a discharge and a diameter
\* ------------------------------------------------------------------------
FlowInputs ==
  {Dec(2, 2), One, Zero, Dec(-1, 2), Int2Num(10), Dec(5, 3), NaN, PosInf}

DiameterInputs ==
  {Dec(2, 1), One, Dec(5, 2), Zero, Dec(-1, 1), Int2Num(-2), NaN, NegInf, PosInf}

InitVelocity ==
  /\ pc = "velocityFull"
  /\ \E q \in FlowInputs, Dm \in DiameterInputs : args = [Qm3s |-> q, Dm |-> Dm]
  /\ loc = NoLoc
  /\ ret = NaN

CallVelocityFull ==
  /\ pc = "velocityFull"
  /\ ret' = velocityFull(args.Qm3s, args.Dm)
  /\ pc' = "done"
  /\ UNCHANGED <<args, loc>>

NextVelocity == CallVelocityFull

SpecVelocity == InitVelocity /\ [][NextVelocity]_vars

\* C10 as stated: velocityFull returns NaN for every diameter D <= 0.
C10_NonPositiveDiameterFails ==
  (pc = "done" /\ Le(args.Dm, Zero)) => isNaN(ret)


\* ------------------------------------------------------------------------
\* hazenWilliamsHf applied to a length, a discharge, a coefficient and a
\* diameter
\* ------------------------------------------------------------------------
\* values of everyday size, values a formula rejects, and (last) a finite
\* positive value whose power leaves the range of a double
HazenL == {Int2Num(1000), Dec(1, 6), Int2Num(1000000), Zero, Int2Num(-1000), NaN, PosInf}
HazenQ == {Dec(5, 2), Dec(1, 6), Int2Num(1000000), Zero, Dec(-5, 2), NaN,
           Norm(16384, -700)}
HazenC == {Int2Num(130), Dec(1, 6), Int2Num(1000000), Zero, NaN}
HazenD == {Dec(3, 1), Dec(1, 6), Int2Num(1000000), Zero, Dec(-3, 1), PosInf,
           Norm(16384, -350)}

InitHazen ==
  /\ pc = "hazenWilliamsHf"
  /\ \E L \in HazenL, Q \in HazenQ, C \in HazenC, D \in HazenD :
       args = [Lm |-> L, Qm3s |-> Q, C |-> C, Dm |-> D]
  /\ loc = NoLoc
  /\ ret = NaN

CallHazenWilliamsHf ==
  /\ pc = "hazenWilliamsHf"
  /\ ret' = hazenWilliamsHf(args.Lm, args.Qm3s, args.C, args.Dm)
  /\ pc' = "done"
  /\ UNCHANGED <<args, loc>>

NextHazen == CallHazenWilliamsHf

SpecHazen == InitHazen /\ [][NextHazen]_vars

\* L, Q, C and D are all finite and strictly positive
HazenValid ==
  /\ Positive(args.Lm) /\ Positive(args.Qm3s)
  /\ Positive(args.C) /\ Positive(args.Dm)

\* 10.67 * L * Q^1.852 / (C^1.852 * D^4.871)
HazenFormula ==
  Div(Mul(Mul(Dec(1067, 2), args.Lm), MathPow(args.Qm3s, 1852)),
      Mul(MathPow(args.C, 1852), MathPow(args.Dm, 4871)))

\* x lies in [1e-6, 1e6]
Everyday(x) == Ge(x, Dec(1, 6)) /\ Le(x, Int2Num(1000000))

\* C11 as stated: hazenWilliamsHf returns NaN unless L, Q, C, D are all
\* finite and strictly positive, and for every such input a finite, strictly
\* positive head loss equal to 10.67*L*Q^1.852/(C^1.852*D^4.871).
C11_HeadLossOnEveryValidInput ==
  pc = "done"
    => IF HazenValid
       THEN Positive(ret) /\ ret = HazenFormula
       ELSE isNaN(ret)

\* C11 amended: NaN unless L, Q, C, D are all finite and strictly positive;
\* for such input the value of the formula in floating point, which is
\* finite and strictly positive when L, Q, C, D all lie in [1e-6, 1e6].
C11_HeadLossInRange ==
  pc = "done"
    => /\ ~HazenValid => isNaN(ret)
       /\ HazenValid => ret = HazenFormula
       /\ (Everyday(args.Lm) /\ Everyday(args.Qm3s)
             /\ Everyday(args.C) /\ Everyday(args.Dm)) => Positive(ret)

\* a head loss computed from everyday values
C11_Witness ==
  /\ pc = "done"
  /\ args.Lm = Int2Num(1000) /\ args.Qm3s = Dec(5, 2)
  /\ args.C = Int2Num(130) /\ args.Dm = Dec(3, 1)
  /\ Positive(ret) /\ ret = HazenFormula


\* ------------------------------------------------------------------------
\* Formatting, and the closed-form helpers of the two calculations
\* ------------------------------------------------------------------------
\* A text is a sequence of pieces: a literal string, or the rendering of a
\* Number x (to d significant digits by formatSig, d = 0 by String).
Lit(str) == [t |-> "lit", s |-> str, x |-> Zero, d |-> 0]
Rendering(x, d) == [t |-> "num", s |-> "", x |-> x, d |-> d]
\* the placeholder (an em dash in the code)
Dash == Lit("--")

\* formatSig without its test of isFinite
formatSigUntested(x, digits) == Rendering(x, digits)

\* formatSig(x, digits): the placeholder for a non-finite x, else the digits
\* of x (toExponential or toPrecision of a finite Number writes digits only)
formatSig(x, digits) == IF ~isFinite(x) THEN Dash ELSE Rendering(x, digits)

\* String(x)
String(x) ==
  IF isNaN(x) THEN Lit("NaN")
  ELSE IF isInf(x) THEN Lit(IF Sign(x) < 0 THEN "-Infinity" ELSE "Infinity")
  ELSE Rendering(x, 0)

\* Math.floor
MathFloor(x) ==
  IF ~isFinite(x) \/ x.e >= 0 THEN x
  ELSE IF x.e < -15 THEN (IF x.m < 0 THEN Int2Num(-1) ELSE Zero)
  ELSE Int2Num(x.m \div 2^(-x.e))

\* x || 1 and x || 0 on Numbers: 1 or 0 when x is 0 or NaN
OrOne(x) == IF isNaN(x) \/ Sign(x) = 0 THEN One ELSE x
OrZero(x) == IF isNaN(x) THEN Zero ELSE x

G == Dec(980665, 5)

mpsToFtps(v) == Div(v, Dec(3048, 4))
mToMm(m) == Mul(m, Int2Num(1000))
mToIn(m) == Div(m, Dec(254, 4))

diameterFromQandV(Qm3s, Vmps) ==
  IF ~isFinite(Qm3s) \/ ~isFinite(Vmps) \/ Le(Qm3s, Zero) \/ Le(Vmps, Zero) THEN NaN
  ELSE MathSqrt(Div(Mul(Int2Num(4), Qm3s), Mul(MathPI, Vmps)))

minorLossFromSumK(sumOfK, Vmps) ==
  IF ~isFinite(sumOfK) \/ ~isFinite(Vmps) \/ Lt(sumOfK, Zero) \/ Lt(Vmps, Zero) THEN NaN
  ELSE Div(Mul(sumOfK, Mul(Vmps, Vmps)), Mul(Two, G))


\* ------------------------------------------------------------------------
\* The page.  Between events pc = "idle"; args.p and args.g hold the fields
\* of the pressure and the gravity form, ret the texts (and the two style
\* widths) of the result elements, loc the K table and, in loc.calc, the
\* local constants of the calcPressure run whose results the page shows.
\* ------------------------------------------------------------------------
\* sumK() over a list of items
RECURSIVE SumItems(_, _)
SumItems(items, s) ==
  IF items = <<>> THEN s
  ELSE LET it == Head(items)
       IN SumItems(Tail(items),
                   IF isFinite(it.qty) /\ isFinite(it.k)
                   THEN Add(s, Mul(it.qty, it.k)) ELSE s)

sumK(items) == SumItems(items, Zero)

\* the text gaugeForVelocity puts in gaugePill
gaugePillText(vMps) ==
  IF ~isFinite(vMps) THEN <<Dash>>
  ELSE IF Lt(vMps, One) THEN <<Lit("Low")>>
  ELSE IF Le(vMps, Dec(25, 1)) THEN <<Lit("OK")>>
  ELSE IF Le(vMps, Dec(35, 1)) THEN <<Lit("High")>>
  ELSE <<Lit("Very High")>>

\* v as a share of full in percent, clamped to 0..100
Percent(v, full) ==
  CHOOSE r \in {clamp(share, Zero, Int2Num(100)) :
                  share \in {Mul(Div(v, full), Int2Num(100))}} : TRUE

\* setLive(mode, bigNumber, bigUnit, fillPct, hint)
setLive(mode, bigNumber, bigUnit, fillPct, hint) ==
  [modePill |-> <<Lit(mode)>>, bigNumber |-> bigNumber, bigUnit |-> <<bigUnit>>,
   meterFill |-> CHOOSE w \in {clamp(pct, Zero, Int2Num(100)) : pct \in {fillPct}} : TRUE,
   meterHint |-> <<Lit(hint)>>]

\* gaugeForVelocity(vMps)
gaugeForVelocity(vMps) ==
  [gaugeNeedle |-> Percent(vMps, Int2Num(4)), gaugePill |-> gaugePillText(vMps)]

\* the texts of calcPressure's result elements, from its local constants c
PressureTexts(f, c, items) ==
  [resD |-> IF isFinite(c.Dm) THEN <<formatSig(mToMm(c.Dm), 5), Lit(" mm")>>
            ELSE <<Dash>>,
   resDSub |-> IF isFinite(c.Dm)
               THEN <<formatSig(mToIn(c.Dm), 5), Lit(" in   |   "),
                      formatSig(c.Dm, 6), Lit(" m")>>
               ELSE <<Dash>>,
   resV |-> IF isFinite(c.Vmps) THEN <<formatSig(c.Vmps, 6), Lit(" m/s")>>
            ELSE <<Dash>>,
   resVSub |-> IF isFinite(c.Vmps)
               THEN <<formatSig(mpsToFtps(c.Vmps), 6), Lit(" ft/s")>>
               ELSE <<Dash>>,
   resHf |-> IF isFinite(c.hf) THEN <<formatSig(c.hf, 7), Lit(" m")>> ELSE <<Dash>>,
   resHfSub |-> IF isFinite(c.hf) /\ isFinite(c.Lm) /\ Gt(c.Lm, Zero)
                THEN <<formatSig(Div(c.hf, Div(c.Lm, Int2Num(1000))), 7),
                       Lit(" m/km")>>
                ELSE <<Dash>>,
   resHm |-> IF isFinite(c.hm) THEN <<formatSig(c.hm, 7), Lit(" m")>> ELSE <<Dash>>,
   resHmSub |-> c.hmSub,
   resHs |-> IF isFinite(c.hs) THEN <<formatSig(c.hs, 7), Lit(" m")>> ELSE <<Dash>>,
   resHsSub |-> c.hsSub,
   resTDH |-> IF c.TDH_ok THEN <<formatSig(c.TDH, 7), Lit(" m")>> ELSE <<Dash>>,
   resTDHSub |-> <<Lit("hf + hm + hs")>>,
   miniQTot |-> IF isFinite(c.Qtotal) THEN <<formatSig(c.Qtotal, 8)>> ELSE <<Dash>>,
   miniQ |-> IF isFinite(c.Q) THEN <<formatSig(c.Q, 8)>> ELSE <<Dash>>,
   miniPipes |-> <<String(c.pipes)>>,
   miniSumK |-> IF f.minorKMode THEN <<formatSig(sumK(items), 8)>> ELSE <<Dash>>]
  @@ setLive("Pressure",
             IF c.TDH_ok THEN <<formatSig(c.TDH, 7)>> ELSE <<Dash>>, Lit("m TDH"),
             IF c.TDH_ok THEN Percent(c.TDH, Int2Num(80)) ELSE Zero,
             "Required Pump Head (TDH).")
  @@ gaugeForVelocity(c.Vmps)

\* r with the fields of the record t replaced by t's
Shown(r, t) == [id \in DOMAIN r |-> IF id \in DOMAIN t THEN t[id] ELSE r[id]]

\* Math.max(1, Math.floor(count || 1))
PipeCountNoFloor(count) == CHOOSE n \in {MathMax(One, c) : c \in {OrOne(count)}} : TRUE
PipeCount(count) ==
  CHOOSE n \in {MathMax(One, MathFloor(c)) : c \in {OrOne(count)}} : TRUE

\* the value of a term in the total: a non-finite term counts as zero
TermOrZero(h) == IF isFinite(h) THEN h ELSE Zero

\* calcPressure() run on the pressure form f, from the K table of l and the
\* texts r: each local constant is computed once, in the order of the code
calcPressure(f, l, r) ==
  \E count \in {Number(f.pCount)},
     Qtotal \in {toM3s(f.qVal, f.qUnit)} :
  \E pipes \in {PipeCount(count)} :
  \E Q \in {IF isFinite(Qtotal) THEN Div(Qtotal, pipes) ELSE NaN},
     Vt \in {velToMps(f.vTarget, f.vUnit)} :
  \E Dm \in {IF f.pressureMode = "D_from_V" THEN diameterFromQandV(Q, Vt)
             ELSE diameterToM(f.dVal, f.dUnit)} :
  \E Vmps \in {IF f.pressureMode = "D_from_V" THEN Vt ELSE velocityFull(Q, Dm)},
     Lm \in {lenToM(f.pLen, f.pLenUnit)},
     C \in {Number(f.hwC)} :
  \E hf \in {hazenWilliamsHf(Lm, Q, C, Dm)},
     pct \in {Number(f.minorPct)},
     sk \in {sumK(l.heap[l.kItems])},
     pz \in {elevToM(f.pumpAxis, f.pumpAxisUnit)},
     mz \in {elevToM(f.maxElev, f.maxElevUnit)} :
  \E ratio \in {IF isFinite(pct) THEN Div(pct, Int2Num(100)) ELSE NaN} :
  \E hm \in {IF f.minorPctMode
             THEN (IF isFinite(hf) /\ isFinite(ratio) THEN Mul(hf, ratio) ELSE NaN)
             ELSE (IF isFinite(Vmps) /\ isFinite(sk)
                   THEN minorLossFromSumK(sk, Vmps) ELSE NaN)},
     hs \in {IF f.staticFixedMode THEN elevToM(f.staticFixed, f.staticFixedUnit)
             ELSE IF isFinite(pz) /\ isFinite(mz) THEN MathMax(Zero, Sub(mz, pz))
             ELSE NaN} :
  \E TDH \in {Add(Add(TermOrZero(hf), TermOrZero(hm)), TermOrZero(hs))} :
  \E c \in {[pipes |-> pipes, Qtotal |-> Qtotal, Q |-> Q, Dm |-> Dm, Vmps |-> Vmps,
             Lm |-> Lm, hf |-> hf, hm |-> hm, hs |-> hs, TDH |-> TDH,
             TDH_ok |-> isFinite(hf) \/ isFinite(hm) \/ isFinite(hs),
             hmSub |-> IF f.minorPctMode
                       THEN (IF isFinite(pct)
                             THEN <<formatSig(pct, 5), Lit("% of hf")>> ELSE <<Dash>>)
                       ELSE <<Lit("SumK="), formatSig(sk, 7),
                              Lit(" , hm=SumK*V^2/(2g)")>>,
             hsSub |-> IF f.staticFixedMode THEN <<Lit("Fixed")>>
                       ELSE IF isFinite(pz) /\ isFinite(mz)
                       THEN <<Lit("Max(0, "), formatSig(mz, 6), Lit(" - "),
                              formatSig(pz, 6), Lit(")")>>
                       ELSE <<Lit("Enter levels")>>]} :
     /\ ret' = Shown(r, PressureTexts(f, c, l.heap[l.kItems]))
     /\ loc' = [l EXCEPT !.calc = c]


\* ------------------------------------------------------------------------
\* The K table
\* ------------------------------------------------------------------------
\* the first NItems entries of K_DEFAULTS are modelled
NItems == 2

KDefaultNames ==
  <<"90 Elbow (standard)", "45 Elbow", "Tee (through)", "Tee (branch)",
    "Gate valve (open)", "Butterfly valve (open)", "Check valve",
    "Reducer / Expander", "Entrance", "Exit">>
KDefaultFactors == <<9, 4, 6, 18, 2, 6, 20, 5, 5, 10>>

\* the array K_DEFAULTS as the script creates it
K_DEFAULTS ==
  [i \in 1..NItems |->
     [name |-> KDefaultNames[i], qty |-> Zero, k |-> Dec(KDefaultFactors[i], 1)]]

\* JSON.parse(JSON.stringify(items)): new objects with the same names and
\* numbers; a non-finite number becomes null, which every use reads as 0
JSONCopy(items) ==
  [i \in DOMAIN items |->
     [name |-> items[i].name,
      qty |-> IF isFinite(items[i].qty) THEN items[i].qty ELSE Zero,
      k |-> IF isFinite(items[i].k) THEN items[i].k ELSE Zero]]

\* loc.heap holds the arrays of item objects: "defaults" is the array
\* K_DEFAULTS names, "a" and "b" are the arrays made by JSONCopy (<<>> when
\* not allocated).  loc.kItems names the array the variable kItems refers
\* to, loc.rows the array whose objects the rendered rows write to ("none"
\* before the first renderKTable).
kItems == loc.heap[loc.kItems]

\* the array a fresh copy is stored in: one that neither kItems (after the
\* assignment) nor the rendered rows refer to
FreshArray ==
  IF loc.rows = loc.kItems THEN (IF loc.kItems = "a" THEN "b" ELSE "a")
  ELSE IF loc.kItems = "defaults" THEN (IF loc.rows = "a" THEN "b" ELSE "a")
  ELSE loc.kItems

\* kItems = K_DEFAULTS: the list is the defaults array itself
AssignAlias(l) == [l EXCEPT !.kItems = "defaults"]

\* kItems = JSON.parse(JSON.stringify(K_DEFAULTS)), as the new loc
AssignDeepCopy(l) ==
  [l EXCEPT !.heap = [@ EXCEPT ![FreshArray] = JSONCopy(l.heap["defaults"])],
            !.kItems = FreshArray]

\* the K x Qty cell of a row
KxQ(it) == <<formatSig(Mul(OrZero(it.qty), OrZero(it.k)), 6)>>

\* renderKTable(), as the new loc and the rows it builds
RenderedRows(items) == [i \in DOMAIN items |-> [name |-> items[i].name, tdKxQ |-> KxQ(items[i])]]
renderKTable(l) ==
  [l EXCEPT !.rows = l.kItems,
            !.heap = [id \in DOMAIN @ |->
                        IF id \in {"a", "b"} /\ id # l.kItems THEN <<>> ELSE @[id]]]

\* ------------------------------------------------------------------------
\* The forms
\* ------------------------------------------------------------------------
Empty == Raw("empty", 0, 0)
Typed(n) == Raw("dec", n, 0)

\* the pressure form as resetPressure leaves it
PressureDefaults ==
  [pCount |-> Typed(1), qVal |-> Empty, qUnit |-> "Lps",
   pressureMode |-> "D_from_V", vTarget |-> Empty, vUnit |-> "mps",
   dVal |-> Empty, dUnit |-> "mm", pLen |-> Typed(1000), pLenUnit |-> "m",
   hwC |-> Typed(130),
   minorPctMode |-> TRUE, minorKMode |-> FALSE, minorPct |-> Typed(10),
   staticFixedMode |-> TRUE, staticAutoMode |-> FALSE,
   staticFixed |-> Typed(0), staticFixedUnit |-> "m",
   pumpAxis |-> Empty, maxElev |-> Empty,
   pumpAxisUnit |-> "m", maxElevUnit |-> "m"]

\* the gravity form as resetGravity leaves it
GravityDefaults ==
  [gCount |-> Typed(1), gQVal |-> Empty, gQUnit |-> "Lps",
   nVal |-> Raw("dec", 13, 3), sVal |-> Empty, sUnit |-> "mperm",
   gravityMode |-> "DD_from_D", gDVal |-> Empty, gDUnit |-> "mm",
   gDDVal |-> Typed(80)]

\* the display of the wrappers, by the three update...ModeUI functions of
\* the pressure form and by updateGravityModeUI
PressureModeUI(f) ==
  [targetVWrap |-> f.pressureMode = "D_from_V",
   diamWrap |-> f.pressureMode # "D_from_V",
   minorPctWrap |-> f.minorPctMode, minorKWrap |-> ~f.minorPctMode,
   staticFixedWrap |-> f.staticFixedMode, staticAutoWrap |-> ~f.staticFixedMode]
GravityModeUI(g) ==
  [gDiamWrap |-> g.gravityMode = "DD_from_D",
   gDDWrap |-> g.gravityMode = "D_from_Q_at_DD"]

\* the texts resetPressure writes, with kItems holding items
ResetPressureTexts(items) ==
  [sumKText |-> <<formatSig(sumK(items), 8)>>,
   resD |-> <<Dash>>, resDSub |-> <<Dash>>, resV |-> <<Dash>>, resVSub |-> <<Dash>>,
   resHf |-> <<Dash>>, resHfSub |-> <<Dash>>, resHm |-> <<Dash>>,
   resHmSub |-> <<Dash>>, resHs |-> <<Dash>>, resHsSub |-> <<Dash>>,
   resTDH |-> <<Dash>>, resTDHSub |-> <<Lit("hf + hm + hs")>>,
   miniQTot |-> <<Dash>>, miniQ |-> <<Dash>>, miniPipes |-> <<Dash>>,
   miniSumK |-> <<Dash>>]
  @@ setLive("Pressure", <<Dash>>, Dash, Zero, "Enter inputs to see results.")
  @@ gaugeForVelocity(NaN)

\* the texts resetGravity writes
ResetGravityTexts ==
  [gResD |-> <<Dash>>, gResDSub |-> <<Dash>>, gResV |-> <<Dash>>,
   gResVSub |-> <<Dash>>, gResDD |-> <<Dash>>, gResDDSub |-> <<Dash>>,
   gResQfull |-> <<Dash>>,
   gMiniQTot |-> <<Dash>>, gMiniQ |-> <<Dash>>, gMiniPipes |-> <<Dash>>]
  @@ setLive("Gravity", <<Dash>>, Dash, Zero, "Enter inputs to see results.")

\* no local constants: the results of calcPressure are not on the page
NoCalc ==
  [pipes |-> NaN, Qtotal |-> NaN, Q |-> NaN, Dm |-> NaN, Vmps |-> NaN, Lm |-> NaN,
   hf |-> NaN, hm |-> NaN, hs |-> NaN, TDH |-> NaN, TDH_ok |-> FALSE,
   hmSub |-> <<>>, hsSub |-> <<>>]

\* the script's variables once it is loaded (line 203), before
\* DOMContentLoaded
LoadedLoc ==
  [lo |-> NaN, hi |-> NaN, iter |-> 0, i |-> 0, qfull |-> NaN, theta |-> NaN,
   capped |-> FALSE,
   heap |-> [defaults |-> K_DEFAULTS, a |-> JSONCopy(K_DEFAULTS), b |-> <<>>],
   kItems |-> "a", rows |-> "none", modal |-> FALSE, calc |-> NoCalc]

\* the page after the DOMContentLoaded handler: resetPressure(), then
\* resetGravity()
InitPage ==
  /\ pc = "idle"
  /\ args = [p |-> PressureDefaults, g |-> GravityDefaults]
  /\ loc = LoadedLoc
  /\ ret = Shown(ResetPressureTexts(K_DEFAULTS) @@ ResetGravityTexts
                   @@ PressureModeUI(PressureDefaults)
                   @@ GravityModeUI(GravityDefaults)
                   @@ [kRows |-> <<>>],
                 ResetGravityTexts)


\* ------------------------------------------------------------------------
\* Events of the pressure form
\* ------------------------------------------------------------------------
\* What the user puts into each field.  A number field holds the empty
\* text or a number; the pipe count also takes a word.
PressureFieldValues ==
  [pCount |-> {Typed(1), Empty, Typed(0), Typed(-3), Raw("dec", 27, 1),
               Raw("word", 0, 0), Typed(4)},
   qVal |-> {Empty, Typed(600)},
   qUnit |-> {"Lps"},
   vTarget |-> {Empty, Raw("dec", 15, 1)},
   vUnit |-> {"mps"},
   dVal |-> {Empty, Typed(100)},
   dUnit |-> {"mm"},
   pLen |-> {Typed(1000), Raw("exp", 25, 305)},
   pLenUnit |-> {"m"},
   hwC |-> {Typed(130)},
   minorPct |-> {Typed(10)},
   staticFixed |-> {Typed(0), Typed(-5), Raw("exp", 1, 308)},
   staticFixedUnit |-> {"m"},
   pumpAxis |-> {Empty, Typed(10)},
   pumpAxisUnit |-> {"m"},
   maxElev |-> {Empty, Typed(25), Typed(5)},
   maxElevUnit |-> {"m"}]

\* the fields in which a form differs from the form after reset
Varied(f, defaults) == {id \in DOMAIN f : f[id] # defaults[id]}

\* The forms explored: the fields of one of these groups are filled in
\* together, the others keep their values after reset.
PressureGroups ==
  {{"pCount", "qVal", "pressureMode", "vTarget", "dVal"},
   {"qVal", "pressureMode", "dVal", "pLen", "minorPctMode", "minorKMode",
    "staticFixed"},
   {"qVal", "pressureMode", "dVal", "staticFixedMode", "staticAutoMode",
    "pumpAxis", "maxElev"},
   {"qVal", "vTarget", "minorPctMode", "minorKMode"}}
PressureForm(f) ==
  \E group \in PressureGroups : Varied(f, PressureDefaults) \subseteq group

\* an input or change event on one of the listed fields
PressureInput ==
  /\ pc = "idle"
  /\ \E id \in DOMAIN PressureFieldValues :
     \E v \in PressureFieldValues[id] :
     \E f \in {[args.p EXCEPT ![id] = v]} :
        /\ PressureForm(f)
        /\ args' = [args EXCEPT !.p = f]
        /\ calcPressure(f, loc, ret)
  /\ pc' = pc

\* a change event on pressureMode
PressureModeChange ==
  /\ pc = "idle"
  /\ \E mode \in {"D_from_V", "V_from_D"} :
     \E f \in {[args.p EXCEPT !.pressureMode = mode]} :
        /\ PressureForm(f)
        /\ args' = [args EXCEPT !.p = f]
        /\ calcPressure(f, loc, Shown(ret, PressureModeUI(f)))
  /\ pc' = pc

\* a change event on the radio buttons minorPctMode and minorKMode
MinorModeChange ==
  /\ pc = "idle"
  /\ \E pct \in BOOLEAN :
     \E f \in {[args.p EXCEPT !.minorPctMode = pct, !.minorKMode = ~pct]} :
        /\ PressureForm(f)
        /\ args' = [args EXCEPT !.p = f]
        /\ calcPressure(f, loc, Shown(ret, PressureModeUI(f)))
  /\ pc' = pc

\* a change event on the radio buttons staticFixedMode and staticAutoMode
StaticModeChange ==
  /\ pc = "idle"
  /\ \E fixed \in BOOLEAN :
     \E f \in {[args.p EXCEPT !.staticFixedMode = fixed, !.staticAutoMode = ~fixed]} :
        /\ PressureForm(f)
        /\ args' = [args EXCEPT !.p = f]
        /\ calcPressure(f, loc, Shown(ret, PressureModeUI(f)))
  /\ pc' = pc

\* a click on btnCalcPressure
BtnCalcPressure ==
  /\ pc = "idle"
  /\ calcPressure(args.p, loc, ret)
  /\ UNCHANGED <<pc, args>>

\* resetPressure(), on a click on btnResetPressure
resetPressure ==
  /\ pc = "idle"
  /\ args' = [args EXCEPT !.p = PressureDefaults]
  /\ \E l \in {[AssignDeepCopy(loc) EXCEPT !.calc = NoCalc]} :
        /\ loc' = l
        /\ ret' = Shown(ret, ResetPressureTexts(l.heap[l.kItems])
                               @@ PressureModeUI(PressureDefaults))
  /\ pc' = pc

NextPressure ==
  \/ PressureInput
  \/ PressureModeChange
  \/ MinorModeChange
  \/ StaticModeChange
  \/ BtnCalcPressure
  \/ resetPressure

SpecPressure == InitPage /\ [][NextPressure]_vars


\* ------------------------------------------------------------------------
\* calcGravity and the events of the gravity form.  calcGravity calls one
\* of the two solvers: during the call pc is at the solver, args holds the
\* solver's arguments next to the forms, and args.caller the local
\* constants of calcGravity and the texts of the page.
\* ------------------------------------------------------------------------
GravityFieldValues ==
  [gCount |-> {Typed(1), Raw("dec", 27, 1)},
   gQVal |-> {Empty, Typed(60)},
   gQUnit |-> {"Lps"},
   nVal |-> {Raw("dec", 13, 3)},
   sVal |-> {Empty, Raw("dec", 1, 2)},
   sUnit |-> {"mperm"},
   gravityMode |-> {"DD_from_D", "D_from_Q_at_DD"},
   gDVal |-> {Empty, Typed(300)},
   gDUnit |-> {"mm"},
   gDDVal |-> {Typed(80)}]

\* no solver is running
SolverIdle(l) ==
  [l EXCEPT !.lo = NaN, !.hi = NaN, !.iter = 0, !.i = 0, !.qfull = NaN,
            !.theta = NaN, !.capped = FALSE]

\* calcGravity() on the gravity form g, from its first line to the call of
\* the solver
calcGravityCall(g, r) ==
  \E pipes \in {PipeCount(Number(g.gCount))},
     Qtotal \in {toM3s(g.gQVal, g.gQUnit)},
     n \in {Number(g.nVal)},
     S \in {slopeToMmPerM(g.sVal, g.sUnit)},
     ddPct \in {Number(g.gDDVal)} :
  \E Q \in {IF isFinite(Qtotal) THEN Div(Qtotal, pipes) ELSE NaN},
     yd \in {IF g.gravityMode = "D_from_Q_at_DD"
             THEN (IF isFinite(ddPct) THEN Div(ddPct, Int2Num(100)) ELSE NaN)
             ELSE NaN},
     Dm \in {IF g.gravityMode = "D_from_Q_at_DD" THEN NaN
             ELSE diameterToM(g.gDVal, g.gDUnit)} :
     /\ args' = [p |-> args.p, g |-> g,
                 Dm |-> Dm, Qtarget |-> Q, n |-> n, S |-> S, yd |-> yd,
                 caller |-> [pipes |-> pipes, Qtotal |-> Qtotal, Q |-> Q,
                             texts |-> r]]
     /\ loc' = SolverIdle(loc)
     /\ IF g.gravityMode = "D_from_Q_at_DD"
        THEN pc' = "solveD_manning_atDepth" /\ ret' = NaN
        ELSE pc' = "solveThetaForQ" /\ ret' = NoRet

\* the texts of calcGravity's result elements
GravityTexts(c, Dm, yd, qfull, V) ==
  [gResD |-> IF isFinite(Dm) THEN <<formatSig(mToMm(Dm), 5), Lit(" mm")>>
             ELSE <<Dash>>,
   gResDSub |-> IF isFinite(Dm)
                THEN <<formatSig(mToIn(Dm), 5), Lit(" in   |   "),
                       formatSig(Dm, 6), Lit(" m")>>
                ELSE <<Dash>>,
   gResV |-> IF isFinite(V) THEN <<formatSig(V, 6), Lit(" m/s")>> ELSE <<Dash>>,
   gResVSub |-> IF isFinite(V) THEN <<formatSig(mpsToFtps(V), 6), Lit(" ft/s")>>
                ELSE <<Dash>>,
   gResDD |-> IF isFinite(yd)
              THEN <<formatSig(Mul(yd, Int2Num(100)), 6), Lit(" %")>>
              ELSE <<Dash>>,
   gResDDSub |-> <<Lit("Pipes="), String(c.pipes), Lit(" (per-pipe flow used)")>>,
   gResQfull |-> IF isFinite(qfull) THEN <<formatSig(qfull, 8), Lit(" m3/s")>>
                 ELSE <<Dash>>,
   gMiniQTot |-> IF isFinite(c.Qtotal) THEN <<formatSig(c.Qtotal, 8)>> ELSE <<Dash>>,
   gMiniQ |-> IF isFinite(c.Q) THEN <<formatSig(c.Q, 8)>> ELSE <<Dash>>,
   gMiniPipes |-> <<String(c.pipes)>>]
  @@ setLive("Gravity",
             IF isFinite(yd) THEN <<formatSig(Mul(yd, Int2Num(100)), 6)>>
             ELSE <<Dash>>,
             Lit("% d/D"),
             IF isFinite(yd) THEN Percent(yd, One) ELSE Zero,
             "Manning partial-flow depth ratio.")

\* Q / wettedA when both are usable
MeanVelocity(Q, wettedA) ==
  IF isFinite(Q) /\ isFinite(wettedA) /\ Gt(wettedA, Zero) THEN Div(Q, wettedA)
  ELSE NaN

\* calcGravity() from the return of the solver to its last line
calcGravityReturn ==
  /\ pc = "done"
  /\ "caller" \in DOMAIN args
  /\ IF args.g.gravityMode = "D_from_Q_at_DD"
     THEN \E Dm \in {ret},
             theta \in {IF isFinite(args.yd) THEN thetaFromDepthRatio(args.yd)
                        ELSE NaN} :
          \E qfull \in {IF isFinite(Dm) THEN manningQ_full(Dm, args.n, args.S)
                        ELSE NaN},
             wettedA \in {IF isFinite(Dm) /\ isFinite(theta)
                          THEN areaPartial(Dm, theta) ELSE NaN} :
          \E V \in {IF isFinite(Dm) /\ isFinite(theta)
                    THEN MeanVelocity(args.caller.Q, wettedA) ELSE NaN} :
             ret' = Shown(args.caller.texts,
                          GravityTexts(args.caller, Dm, args.yd, qfull, V))
     ELSE \E solved \in {ret} :
          \E V \in {MeanVelocity(args.caller.Q, solved.A)} :
             ret' = Shown(args.caller.texts,
                          GravityTexts(args.caller, args.Dm, solved.yd,
                                       solved.qfull, V))
  /\ args' = [p |-> args.p, g |-> args.g]
  /\ loc' = SolverIdle(loc)
  /\ pc' = "idle"

\* the gravity form is only filled in while the pressure form and its
\* results are as resetPressure left them
PressureAsReset == args.p = PressureDefaults /\ ret.miniPipes = <<Dash>>

\* an input or change event on one of the listed fields; on gravityMode the
\* change listener with updateGravityModeUI runs as well
GravityInput ==
  /\ pc = "idle"
  /\ PressureAsReset
  /\ \E id \in DOMAIN GravityFieldValues :
     \E v \in GravityFieldValues[id] :
     \E g \in {[args.g EXCEPT ![id] = v]} :
        calcGravityCall(g, Shown(ret, GravityModeUI(g)))

\* a click on btnCalcGravity
BtnCalcGravity ==
  /\ pc = "idle"
  /\ PressureAsReset
  /\ calcGravityCall(args.g, ret)

\* resetGravity(), on a click on btnResetGravity
resetGravity ==
  /\ pc = "idle"
  /\ args' = [args EXCEPT !.g = GravityDefaults]
  /\ ret' = Shown(ret, ResetGravityTexts @@ GravityModeUI(GravityDefaults))
  /\ UNCHANGED <<pc, loc>>

\* setTab(tabName), on a click on a tab (the tabs and panes themselves are
\* not modelled)
setTab ==
  /\ pc = "idle"
  /\ \E tabName \in {"pressure", "gravity"} :
        ret' = [ret EXCEPT !.modePill =
                  <<Lit(IF tabName = "pressure" THEN "Pressure" ELSE "Gravity")>>]
  /\ UNCHANGED <<pc, args, loc>>

\* the pressure form is only filled in while the gravity form is as reset
\* left it
PressureEvent ==
  /\ args.g = GravityDefaults
  /\ NextPressure

NextPage ==
  \/ PressureEvent
  \/ GravityInput
  \/ BtnCalcGravity
  \/ resetGravity
  \/ setTab
  \/ NextTheta
  \/ NextDepth
  \/ calcGravityReturn

SpecPage == InitPage /\ [][NextPage]_vars


\* ------------------------------------------------------------------------
\* Events of the K table
\* ------------------------------------------------------------------------
\* What the user types into a row: a quantity field holds the empty text or
\* a count, a K-factor field a number.
QtyTexts == {Empty, Typed(2)}
KTexts == {Raw("dec", 15, 1)}

\* Number(text || 0)
FieldOrZero(v) == IF v = Empty THEN Zero ELSE Number(v)

\* the rows and the total renderKTable() writes for the list kItems of l
RenderedTexts(l) ==
  [kRows |-> RenderedRows(l.heap[l.kItems]),
   sumKText |-> <<formatSig(sumK(l.heap[l.kItems]), 8)>>]

\* openKModal(), on a click on btnEditK
openKModal ==
  /\ pc = "idle"
  /\ \E l \in {renderKTable(loc)} :
        /\ loc' = [l EXCEPT !.modal = TRUE]
        /\ ret' = Shown(ret, RenderedTexts(l))
  /\ UNCHANGED <<pc, args>>

\* closeKModal(), on a click on kModalClose or kModalOverlay
closeKModal ==
  /\ pc = "idle"
  /\ loc.modal
  /\ loc' = [loc EXCEPT !.modal = FALSE]
  /\ UNCHANGED <<pc, args, ret>>

\* a click on kModalSave
KModalSave ==
  /\ pc = "idle"
  /\ loc.modal
  /\ calcPressure(args.p, [loc EXCEPT !.modal = FALSE], ret)
  /\ UNCHANGED <<pc, args>>

\* a click on kModalReset
KModalReset ==
  /\ pc = "idle"
  /\ loc.modal
  /\ \E l \in {renderKTable(AssignDeepCopy(loc))} :
        calcPressure(args.p, l, Shown(ret, RenderedTexts(l)))
  /\ UNCHANGED <<pc, args>>

\* The input listener of a field of row idx writes to the item object the
\* row was rendered for: the new loc.
RowWrite(idx, field, v) ==
  [loc EXCEPT !.heap[loc.rows][idx][field] = FieldOrZero(v)]

\* the listener then shows the row's product and the total of the list
\* kItems
RowTexts(l, idx) ==
  [kRows |-> [ret.kRows EXCEPT ![idx].tdKxQ = KxQ(l.heap[l.rows][idx])],
   sumKText |-> <<formatSig(sumK(l.heap[l.kItems]), 8)>>]

\* an input event on the quantity field of a row
RowQtyInput ==
  /\ pc = "idle"
  /\ loc.modal
  /\ loc.rows # "none"
  /\ \E idx \in 1..NItems : \E v \in QtyTexts :
     \E l \in {RowWrite(idx, "qty", v)} :
        calcPressure(args.p, l, Shown(ret, RowTexts(l, idx)))
  /\ UNCHANGED <<pc, args>>

\* an input event on the K-factor field of a row
RowKInput ==
  /\ pc = "idle"
  /\ loc.modal
  /\ loc.rows # "none"
  /\ \E idx \in 1..NItems : \E v \in KTexts :
     \E l \in {RowWrite(idx, "k", v)} :
        calcPressure(args.p, l, Shown(ret, RowTexts(l, idx)))
  /\ UNCHANGED <<pc, args>>

\* an input event on the discharge or the target velocity
KTableInput ==
  /\ pc = "idle"
  /\ \E id \in {"qVal", "vTarget"} :
     \E v \in PressureFieldValues[id] :
     \E f \in {[args.p EXCEPT ![id] = v]} :
        /\ PressureForm(f)
        /\ args' = [args EXCEPT !.p = f]
        /\ calcPressure(f, loc, ret)
  /\ pc' = pc

NextKTable ==
  \/ openKModal
  \/ closeKModal
  \/ KModalSave
  \/ KModalReset
  \/ RowQtyInput
  \/ RowKInput
  \/ resetPressure
  \/ MinorModeChange
  \/ KTableInput

SpecKTable == InitPage /\ [][NextKTable]_vars

\* ------------------------------------------------------------------------
\* Properties of calcPressure and calcGravity
\* ------------------------------------------------------------------------
\* the results of a run of calcPressure are on the page
PressureShown == pc = "idle" /\ ret.miniPipes # <<Dash>>

\* the text starts with the digits of a finite number
Numeric(text) == text # <<>> /\ text[1].t = "num" /\ isFinite(text[1].x)

\* C12: the total dynamic head is the sum of friction, minor and static
\* head with each non-finite term counted as zero; the TDH field is the
\* placeholder exactly when all three terms are non-finite, and shows a
\* number when at least one of them is finite.
C12_TotalHeadShown ==
  PressureShown =>
    LET c == loc.calc
    IN /\ c.TDH = Add(Add(TermOrZero(c.hf), TermOrZero(c.hm)), TermOrZero(c.hs))
       /\ (ret.resTDH = <<Dash>>)
            <=> (~isFinite(c.hf) /\ ~isFinite(c.hm) /\ ~isFinite(c.hs))
       /\ (isFinite(c.hf) \/ isFinite(c.hm) \/ isFinite(c.hs)) => Numeric(ret.resTDH)

\* x is an integer >= 1
PipeNumber(x) == isFinite(x) /\ MathFloor(x) = x /\ Ge(x, One)

C14_StaticHeadNeverNegative ==
  PressureShown =>
    LET c == loc.calc
        f == args.p
        pz == elevToM(f.pumpAxis, f.pumpAxisUnit)
        mz == elevToM(f.maxElev, f.maxElevUnit)
    IN /\ c.hs = IF f.staticFixedMode THEN elevToM(f.staticFixed, f.staticFixedUnit)
                 ELSE IF isFinite(pz) /\ isFinite(mz) THEN MathMax(Zero, Sub(mz, pz))
                 ELSE NaN
       /\ isFinite(c.hs) => Ge(c.hs, Zero)

\* the elements with a result text
TextIds ==
  {"sumKText", "resD", "resDSub", "resV", "resVSub", "resHf", "resHfSub", "resHm",
   "resHmSub", "resHs", "resHsSub", "resTDH", "resTDHSub", "miniQTot", "miniQ",
   "miniPipes", "miniSumK", "modePill", "bigNumber", "bigUnit", "meterHint",
   "gaugePill", "gResD", "gResDSub", "gResV", "gResVSub", "gResDD", "gResDDSub",
   "gResQfull", "gMiniQTot", "gMiniQ", "gMiniPipes"}

\* no piece of the text is the rendering of a non-finite number
NoNonFinite(text) ==
  \A i \in DOMAIN text :
     IF text[i].t = "num" THEN isFinite(text[i].x)
     ELSE text[i].s \notin {"NaN", "Infinity", "-Infinity"}

\* the text shows the placeholder when the value is not finite
DashIfNonFinite(x, text) == ~isFinite(x) => text[1] = Dash

C17_RowsWriteToLiveItems == loc.rows # "none" => loc.rows = loc.kItems

\* a row edit has changed an item
RowEdited == \E i \in 1..NItems : loc.heap[loc.rows][i] # K_DEFAULTS[i]

\* C18: K_DEFAULTS is never modified and kItems is never the defaults array
\* itself; after resetPressure or kModalReset kItems equals the defaults
\* and sumK() is 0; calcPressure and sumK leave the item lists alone.
C18_DefaultsKept ==
  /\ [](loc.heap["defaults"] = K_DEFAULTS /\ loc.kItems # "defaults")
  /\ [][(resetPressure \/ KModalReset)
          => kItems' = K_DEFAULTS /\ sumK(kItems') = Zero]_vars
  /\ [][(KModalSave \/ KTableInput \/ MinorModeChange)
          => loc'.heap = loc.heap /\ loc'.kItems = loc.kItems]_vars

\* an edited list has been reset: kItems holds the defaults again while
\* the defaults array is as created
C18_Witness ==
  /\ loc.rows \in {"a", "b"}
  /\ loc.rows # loc.kItems
  /\ RowEdited
  /\ kItems = K_DEFAULTS


\* ------------------------------------------------------------------------
\* Termination of the solvers
\* ------------------------------------------------------------------------
\* A call of either solver.  Each runs to its return within one event of
\* the page, so a step that can be taken is taken.
SolverBad == {NaN, Zero, Dec(-1, 1), PosInf}

\* a call with valid arguments, and the calls that differ from it in one
\* argument
ThetaBase ==
  [Dm |-> Dec(3, 1), Qtarget |-> Dec(5, 2), n |-> Dec(13, 3), S |-> Dec(1, 2),
   theta0 |-> NaN]
ThetaCalls ==
  {ThetaBase}
    \cup {[ThetaBase EXCEPT ![f] = v] :
            f \in {"Dm", "Qtarget", "n", "S"}, v \in SolverBad}
DepthBase ==
  [Qtarget |-> Int2Num(1000000), n |-> Dec(13, 3), S |-> Dec(1, 2),
   yd |-> Dec(5, 1), D0 |-> NaN]
DepthCalls ==
  {DepthBase, [DepthBase EXCEPT !.yd = Dec(15, 1)]}
    \cup {[DepthBase EXCEPT ![f] = v] :
            f \in {"Qtarget", "n", "S", "yd"}, v \in SolverBad}

InitSolvers ==
  /\ \/ pc = "solveThetaForQ" /\ args \in ThetaCalls /\ ret = NoRet
     \/ pc = "solveD_manning_atDepth" /\ args \in DepthCalls /\ ret = NaN
  /\ loc = NoLoc

NextSolvers == NextTheta \/ NextDepth
SpecSolvers == InitSolvers /\ [][NextSolvers]_vars /\ WF_vars(NextSolvers)

\* C16: every solver call returns, for every input; solveThetaForQ runs at
\* most 120 bisection iterations, solveD_manning_atDepth at most 50
\* growth iterations and then at most 110 bisection iterations.
C16_SolversTerminate ==
  /\ <>(pc = "done")
  /\ [](pc = "thetaLoop" => loc.iter <= ThetaIterations)
  /\ [](pc = "growLoop" => loc.i <= GrowAttempts)
  /\ [](pc = "bisectLoop" => loc.iter <= DepthIterations)

\* solveD_manning_atDepth has returned after growing the bracket and all
\* its bisection iterations
C16_Witness ==
  /\ pc = "done"
  /\ "yd" \in DOMAIN args
  /\ loc.i > 0
  /\ loc.iter = DepthIterations


\* ------------------------------------------------------------------------
\* The bracket of solveThetaForQ
\* ------------------------------------------------------------------------
\* the loop runs with a valid pipe and a target below its capacity, and the
\* bracket lies in [1e-6, 2*pi]
BracketKept ==
  pc = "thetaLoop" =>
    /\ Positive(args.Dm) /\ Positive(args.n) /\ Positive(args.S)
    /\ Positive(args.Qtarget) /\ Lt(args.Qtarget, loc.qfull)
    /\ Le(ThetaLo, loc.lo) /\ Le(loc.lo, loc.hi) /\ Le(loc.hi, TwoPI)

\* a result that is no failure has theta in [1e-6, 2*pi] and the depth
\* ratio of theta, in [0, 1]
ResultInRange ==
  pc = "done" /\ isFinite(ret.theta) =>
    /\ Le(ThetaLo, ret.theta) /\ Le(ret.theta, TwoPI)
    /\ ret.yd = depthRatioFromTheta(ret.theta)
    /\ Le(Zero, ret.yd) /\ Le(ret.yd, One)

\* one iteration of the loop has run
Iterated == pc = "thetaLoop" /\ pc' = "thetaLoop"

\* C19: the loop is reached only with a valid pipe and 0 < Qtarget < qfull
\* and keeps the bracket in [1e-6, 2*pi]; every iteration changes exactly
\* one of lo and hi and halves hi - lo (the midpoint is rounded, so the new
\* width is taken as at most three quarters of the old); a result that is
\* no failure is in range.
C19_BisectionHalves ==
  /\ []BracketKept
  /\ [][Iterated =>
          /\ (loc'.lo # loc.lo) # (loc'.hi # loc.hi)
          /\ Le(Sub(loc'.hi, loc'.lo), Mul(Sub(loc.hi, loc.lo), Dec(75, 2)))]_vars
  /\ []ResultInRange

====
